---- MODULE Spec2Model ----
(***************************************************************************)
(* A model of SyncRepo's incremental repository cache (src/SRC.py):        *)
(* RepositoryCache, the two path filters, Debouncer (threading.Timer),     *)
(* ChangeHandler and the rebuild callback, run against a mutable file      *)
(* tree and a queue of watchdog events.                                    *)
(*                                                                         *)
(* A Python str is a sequence of one-character strings, so that endswith,  *)
(* basename, relpath, commonpath and the ordering used by sorted() are     *)
(* computed on characters.  A Python dict is a sequence of <<key, value>>  *)
(* pairs in insertion order.                                               *)
(***************************************************************************)
EXTENDS Integers, Sequences, FiniteSets, TLC

----------------------------------------------------------------------------
(* Python str *)

Letters == <<"a","b","c","d","e","f","g","h","i","j","k","l","m",
             "n","o","p","q","r","s","t","u","v","w","x","y","z">>

\* ord(c) for the characters that occur in the paths of the model.
Ord(c) ==
    IF c = "." THEN 46
    ELSE IF c = "/" THEN 47
    ELSE 96 + (CHOOSE i \in 1..Len(Letters) : Letters[i] = c)

\* str.__lt__: code-point lexicographic order.
RECURSIVE StrLess(_, _)
StrLess(a, b) ==
    IF b = <<>> THEN FALSE
    ELSE IF a = <<>> THEN TRUE
    ELSE IF Ord(Head(a)) # Ord(Head(b)) THEN Ord(Head(a)) < Ord(Head(b))
    ELSE StrLess(Tail(a), Tail(b))

\* str.endswith(suffix)
EndsWith(s, suffix) ==
    /\ Len(suffix) <= Len(s)
    /\ SubSeq(s, Len(s) - Len(suffix) + 1, Len(s)) = suffix

\* str.startswith(prefix)
StartsWith(s, prefix) ==
    /\ Len(prefix) <= Len(s)
    /\ SubSeq(s, 1, Len(prefix)) = prefix

\* re.search(pattern, s) for a pattern without metacharacters: substring search.
ReSearch(pattern, s) ==
    \E i \in 1..(Len(s) + 1) :
        /\ i + Len(pattern) - 1 <= Len(s)
        /\ SubSeq(s, i, i + Len(pattern) - 1) = pattern

\* sorted(S) / list.sort(): the elements of a set of str in ascending order.
RECURSIVE SortStrs(_)
SortStrs(S) ==
    IF S = {} THEN <<>>
    ELSE LET m == CHOOSE x \in S : \A y \in S \ {x} : StrLess(x, y)
         IN  <<m>> \o SortStrs(S \ {m})

\* s.split("/")
RECURSIVE SplitAcc(_, _, _)
SplitAcc(s, cur, acc) ==
    IF s = <<>> THEN Append(acc, cur)
    ELSE IF Head(s) = "/" THEN SplitAcc(Tail(s), <<>>, Append(acc, cur))
    ELSE SplitAcc(Tail(s), Append(cur, Head(s)), acc)

Split(s) == SplitAcc(s, <<>>, <<>>)

\* "/".join(parts)
RECURSIVE JoinParts(_)
JoinParts(parts) ==
    IF parts = <<>> THEN <<>>
    ELSE IF Len(parts) = 1 THEN parts[1]
    ELSE parts[1] \o <<"/">> \o JoinParts(Tail(parts))

\* os.path.join(a, b) for a relative b.
PathJoin(a, b) == IF a = <<>> THEN b ELSE a \o <<"/">> \o b

\* os.path.basename(p)
Basename(p) == LET parts == Split(p) IN parts[Len(parts)]

\* os.path.relpath(p, start) for p below start.
RelPath(p, start) ==
    IF StartsWith(p, start \o <<"/">>)
    THEN SubSeq(p, Len(start) + 2, Len(p))
    ELSE p

\* os.path.commonpath([a, b]): the longest common leading run of components.
RECURSIVE CommonParts(_, _)
CommonParts(x, y) ==
    IF x = <<>> \/ y = <<>> \/ Head(x) # Head(y) THEN <<>>
    ELSE <<Head(x)>> \o CommonParts(Tail(x), Tail(y))

CommonPath(a, b) ==
    LET c == CommonParts(Split(a), Split(b))
    IN  IF Len(c) = 1 /\ c[1] = <<>> THEN <<"/">> ELSE JoinParts(c)

----------------------------------------------------------------------------
(* Python dict: <<key, value>> pairs in insertion order *)

DictKeys(d) == [i \in 1..Len(d) |-> d[i][1]]

DictKeySet(d) == {d[i][1] : i \in 1..Len(d)}

DictHas(d, k) == \E i \in 1..Len(d) : d[i][1] = k

\* d.get(k, default)
DictGet(d, k, default) ==
    IF DictHas(d, k)
    THEN d[CHOOSE i \in 1..Len(d) : d[i][1] = k][2]
    ELSE default

\* d[k] = v: an existing key keeps its place, a new key goes last.
DictSet(d, k, v) ==
    IF DictHas(d, k)
    THEN [i \in 1..Len(d) |-> IF d[i][1] = k THEN <<k, v>> ELSE d[i]]
    ELSE Append(d, <<k, v>>)

\* del d[k]
DictDel(d, k) == SelectSeq(d, LAMBDA e : e[1] # k)

----------------------------------------------------------------------------
(* Configuration of main() *)

\* The directory entered by the user.
directory_path == <<"/","r">>

extensions ==
    { <<".","j","a","v","a">>, <<".","k","t">>, <<".","j","s","p">>,
      <<".","p","r","o","p","e","r","t","i","e","s">>, <<".","j","s">>,
      <<".","t","s">>, <<".","c","s","s">>, <<".","j","s","o","n">>,
      <<".","h","t","m","l">> }

excludes == { <<".","s","p","e","c",".","t","s">> }

exclude_dirs ==
    { <<"t","e","s","t">>, <<"b","u","i","l","d">>, <<"t","a","r","g","e","t">> }

sensitive_files ==
    { <<".","e","n","v">>, <<"p","r","i","v","a","t","e",".","k","e","y">>,
      <<"s","e","c","r","e","t","s",".","t","x","t">>,
      <<"p","a","s","s","w","o","r","d","s",".","j","s","o","n">> }

regex_patterns == {}

\* The arguments main() passes to load_initial_cache and to ChangeHandler.
MainConfig ==
    [ directory       |-> directory_path,
      extensions      |-> extensions,
      excludes        |-> excludes,
      exclude_dirs    |-> exclude_dirs,
      sensitive_files |-> sensitive_files,
      regex_patterns  |-> regex_patterns ]

----------------------------------------------------------------------------
(* The file tree below the watched directory *)

\* Relative paths of the files the model lets exist.
F_a_js      == <<"a",".","j","s">>
F_b_c_ts    == <<"b","/","c",".","t","s">>
F_nested    == <<"s","r","c","/","t","e","s","t","/","u",".","j","s">>
F_n_txt     == <<"n",".","t","x","t">>
F_test_t_js == <<"t","e","s","t","/","t",".","j","s">>
F_spec_ts   == <<"b","/","c",".","s","p","e","c",".","t","s">>
F_env       == <<".","e","n","v">>
F_gen       == <<"s","r","c","/","g","e","n","/","g",".","j","s">>

Contents == {"x", "y"}

\* The value of a tree at a path where no file is.
NoFile == "<none>"

\* The value of a tree at a file that open()/read() raises on.
Unreadable == "<unreadable>"

\* A tree: each path of dom carries a content, Unreadable or NoFile.
Trees(dom, vals) == [dom -> vals \cup {NoFile}]

\* os.path.exists(file_path)
Exists(tree, directory, file_path) ==
    LET rel == RelPath(file_path, directory)
    IN  rel \in DOMAIN tree /\ tree[rel] # NoFile

\* The (dirs, files) os.walk lists for the directory with components d.
FilesOf(tree, d) ==
    { Split(p)[Len(d) + 1] : p \in
        { q \in DOMAIN tree : /\ tree[q] # NoFile
                              /\ Len(Split(q)) = Len(d) + 1
                              /\ SubSeq(Split(q), 1, Len(d)) = d } }

DirsOf(tree, d) ==
    { Split(p)[Len(d) + 1] : p \in
        { q \in DOMAIN tree : /\ tree[q] # NoFile
                              /\ Len(Split(q)) > Len(d) + 1
                              /\ SubSeq(Split(q), 1, Len(d)) = d } }

----------------------------------------------------------------------------
(* RepositoryCache *)

\* _should_include that lets a listed extension decide before the sensitive names.
ShouldInclude_ExtensionFirst(filename, exts, excl, sens, regs) ==
    IF \E ext \in exts : EndsWith(filename, ext)
    THEN /\ ~ \E exc \in excl : EndsWith(filename, exc)
         /\ ~ \E pattern \in regs : ReSearch(pattern, filename)
    ELSE FALSE

\* _should_include(filename, extensions, excludes, sensitive_files, regex_patterns)
ShouldInclude(filename, exts, excl, sens, regs) ==
    IF filename \in sens THEN FALSE
    ELSE IF ~ \E ext \in exts : EndsWith(filename, ext) THEN FALSE
    ELSE IF \E exc \in excl : EndsWith(filename, exc) THEN FALSE
    ELSE IF \E pattern \in regs : ReSearch(pattern, filename) THEN FALSE
    ELSE TRUE

\* _read_and_store_file(file_path, relative_path): an exception of open/read is
\* caught and leaves the dict as it was.
ReadAndStoreFile(c, tree, directory, file_path, relative_path) ==
    LET rel == RelPath(file_path, directory)
        content == IF rel \in DOMAIN tree THEN tree[rel] ELSE NoFile
    IN  IF content \in {NoFile, Unreadable} THEN c
        ELSE DictSet(c, relative_path, content)

\* remove_file as dict.pop would do it with the last entry as default victim.
RemoveFile_PopsLast(c, relative_path) ==
    IF DictHas(c, relative_path) THEN DictDel(c, relative_path)
    ELSE SubSeq(c, 1, Len(c) - 1)

\* remove_file(relative_path)
RemoveFile(c, relative_path) ==
    IF DictHas(c, relative_path) THEN DictDel(c, relative_path) ELSE c

\* update_file that stores only paths the dict does not hold yet (setdefault).
UpdateFile_KeepsPrior(c, tree, directory, file_path, relative_path) ==
    IF ~Exists(tree, directory, file_path)
    THEN RemoveFile(c, relative_path)
    ELSE IF DictHas(c, relative_path) THEN c
    ELSE ReadAndStoreFile(c, tree, directory, file_path, relative_path)

\* update_file(file_path, relative_path)
UpdateFile(c, tree, directory, file_path, relative_path) ==
    IF ~Exists(tree, directory, file_path)
    THEN RemoveFile(c, relative_path)
    ELSE ReadAndStoreFile(c, tree, directory, file_path, relative_path)

\* get_all_files_sorted without the sort: the keys as the dict lists them.
GetAllFilesSorted_Unsorted(c) == DictKeys(c)

\* get_all_files_sorted()
GetAllFilesSorted(c) == SortStrs(DictKeySet(c))

\* get_file_content(relative_path)
GetFileContent(c, relative_path) == DictGet(c, relative_path, "")

\* The files loop of load_initial_cache for one directory of the walk.
RECURSIVE ScanFiles(_, _, _, _, _)
ScanFiles(c, tree, root, files, conf) ==
    IF files = <<>> THEN c
    ELSE LET file == Head(files)
             file_path == PathJoin(root, file)
             relative_path == RelPath(file_path, conf.directory)
             c2 == IF ShouldInclude(file, conf.extensions, conf.excludes,
                                    conf.sensitive_files, conf.regex_patterns)
                   THEN ReadAndStoreFile(c, tree, conf.directory, file_path, relative_path)
                   ELSE c
         IN  ScanFiles(c2, tree, root, Tail(files), conf)

\* The os.walk loop of load_initial_cache: the directory with components d, then
\* the directories left in dirs, in their sorted order.
RECURSIVE ScanWalk(_, _, _, _)
RECURSIVE ScanDirs(_, _, _, _, _)
ScanWalk(c, tree, d, conf) ==
    LET root  == PathJoin(conf.directory, JoinParts(d))
        dirs  == SortStrs({x \in DirsOf(tree, d) : x \notin conf.exclude_dirs})
        files == SortStrs(FilesOf(tree, d))
    IN  ScanDirs(ScanFiles(c, tree, IF d = <<>> THEN conf.directory ELSE root, files, conf),
                 tree, d, dirs, conf)

ScanDirs(c, tree, d, dirs, conf) ==
    IF dirs = <<>> THEN c
    ELSE ScanDirs(ScanWalk(c, tree, Append(d, Head(dirs)), conf),
                  tree, d, Tail(dirs), conf)

\* load_initial_cache(directory, extensions, excludes, exclude_dirs, sensitive_files, regex_patterns)
LoadInitialCache(tree, conf) == ScanWalk(<<>>, tree, <<>>, conf)

----------------------------------------------------------------------------
(* ChangeHandler._is_relevant_file *)

\* _is_relevant_file(file_path) of a handler built with the configuration h.
IsRelevantFile(h, file_path) ==
    LET file_name == Basename(file_path)
    IN  IF file_name \in h.sensitive_files THEN FALSE
        ELSE IF ~ \E ext \in h.extensions : EndsWith(file_name, ext) THEN FALSE
        ELSE IF \E x \in h.excludes : EndsWith(file_name, x) THEN FALSE
        ELSE IF \E ed \in h.exclude_dirs :
                    LET abs_excl == PathJoin(h.directory, ed)
                    IN  CommonPath(file_path, abs_excl) = abs_excl
             THEN FALSE
        ELSE IF \E pattern \in h.regex_patterns : ReSearch(pattern, file_name) THEN FALSE
        ELSE TRUE

----------------------------------------------------------------------------
(* Bounds of the model *)

\* File-tree changes made while the observer watches (SpecWatch).
MaxChanges == 3

\* File-tree changes made while the observer watches and rebuilds run (Spec).
MaxSyncChanges == 2

\* File-tree changes made to the one file of SpecFilter.
MaxFilterChanges == 2

\* Changes made to files and directories in SpecIgnore.
MaxIgnoreChanges == 3

\* Events the observer's queue holds before further changes wait.
MaxQueue == 2

\* Debouncer.wait_time, in ticks of the model's clock.
wait_time == 2

\* Calls of trigger() and cancel() made on a Debouncer driven on its own.
MaxCalls == 4

\* Calls of trigger() and cancel() made by the threads of SpecThreads.
MaxThreadCalls == 3

\* SyncRepo.py's ChangeHandler.debounce_time, in ticks of the model's clock.
debounce_time == 2

\* Ticks the clock of SpecLegacyWatch makes.
MaxLegacyTime == 4

\* File-tree changes made while SyncRepo.py's observer watches.
MaxLegacyChanges == 2

\* The threads that call trigger() and cancel() in SpecThreads.
Threads == {1, 2}

----------------------------------------------------------------------------
(* State *)

VARIABLES
    conf,       \* the configuration main() passes on
    disk,       \* the file tree below conf.directory
    mpc,        \* main(): "start", "watching"
    cache,      \* RepositoryCache._file_cache
    queue,      \* events the observer has not yet dispatched
    hpc,        \* the observer thread inside ChangeHandler
    hev,        \* the event it is handling, or handled last
    dtimer,     \* Debouncer._timer: 0 for None, else a timer
    timers,     \* the threading.Timer threads that are alive
    changes,    \* file-tree changes made so far
    \* observers of the handler
    trigCount,  \* trigger() calls made for hev
    seen,       \* what update_file found on disk for hev
    srcCached,  \* whether hev's source path was a key when hev was dispatched
    dirty,      \* the cache changed after the last rebuild listed its keys
    midSnap,    \* a rebuild listed the keys between the two steps of a move
    halfSeen,   \* ... and the second step then stored the destination
    \* observers of the Debouncer
    calls,      \* trigger() and cancel() calls made from outside the handler
    nTrig,      \* trigger() calls so far
    nCancel,    \* cancel() calls so far
    nFired,     \* callback invocations so far
    sinceTrig,  \* ticks since the last trigger(), up to wait_time
    burst,      \* every trigger() so far came less than wait_time after the one before
    early,      \* a callback started less than wait_time after the last trigger()
    cTrig,      \* trigger() calls since the last cancel()
    cFired,     \* callback invocations since the last cancel()
    cBurst,     \* burst, for the trigger() calls since the last cancel()
    \* a filter applied to drawn inputs
    fin, fout,
    \* threads that call the Debouncer
    lock,       \* Debouncer._lock: the thread that holds it, or 0
    tpc,        \* where each such thread is in trigger() or cancel()
    \* SyncRepo.py's ChangeHandler
    now,        \* time.time(), in ticks
    last_update \* ChangeHandler.last_update

progVars  == <<conf, disk, mpc, cache, queue, hpc, hev, dtimer, timers, changes>>
hObs      == <<trigCount, seen, srcCached, dirty, midSnap, halfSeen>>
dObs      == <<calls, nTrig, nCancel, nFired, sinceTrig, burst, early, cTrig, cFired, cBurst>>
fVars     == <<fin, fout>>
tVars     == <<lock, tpc>>
lVars     == <<now, last_update>>
vars      == <<progVars, hObs, dObs, fVars, tVars, lVars>>

NoEvent == [kind |-> "none", src_path |-> <<>>, dest_path |-> <<>>, is_directory |-> FALSE]

\* A watchdog event; the paths are absolute.
Event(kind, src, dest, isdir) ==
    [kind |-> kind, src_path |-> src, dest_path |-> dest, is_directory |-> isdir]

Abs(rel) == PathJoin(conf.directory, rel)
Rel(file_path) == RelPath(file_path, conf.directory)

----------------------------------------------------------------------------
(* threading.Timer and Debouncer *)

\* A Timer thread: waiting for its interval (rem ticks left), then running the
\* callback, which is ChangeHandler._on_debounced_update.
NewTimer == [st |-> "waiting", rem |-> wait_time, keys |-> <<>>, i |-> 0, blocks |-> <<>>]

Without(ts, id) == [j \in (DOMAIN ts) \ {id} |-> ts[j]]

NewTimerId(ts) ==
    CHOOSE j \in 1..(Cardinality(DOMAIN ts) + 1) :
        j \notin DOMAIN ts /\ \A k \in 1..(j - 1) : k \in DOMAIN ts

\* Timer.cancel(): a Timer not yet started or still waiting ends without calling
\* back; a thread that has passed its wait is not affected.
TimerCancel(ts, id) ==
    IF id \in DOMAIN ts /\ ts[id].st \in {"created", "waiting"} THEN Without(ts, id) ELSE ts

\* trigger() that starts a new Timer without cancelling the one before.
DebouncerTrigger_NoCancel ==
    /\ timers' = timers @@ (NewTimerId(timers) :> NewTimer)
    /\ dtimer' = NewTimerId(timers)

\* Debouncer.trigger(), under self._lock
DebouncerTrigger ==
    LET ts == IF dtimer # 0 THEN TimerCancel(timers, dtimer) ELSE timers
        id == NewTimerId(ts)
    IN  /\ timers' = ts @@ (id :> NewTimer)
        /\ dtimer' = id

\* cancel() that drops the reference and leaves the Timer running.
DebouncerCancel_Forgets ==
    /\ timers' = timers
    /\ dtimer' = 0

\* Debouncer.cancel(), under self._lock
DebouncerCancel ==
    IF dtimer # 0
    THEN timers' = TimerCancel(timers, dtimer) /\ dtimer' = 0
    ELSE UNCHANGED <<timers, dtimer>>

\* The clock advances by n ticks.
Elapse(n) ==
    timers' = [id \in DOMAIN timers |->
                 IF timers[id].st = "waiting"
                 THEN [timers[id] EXCEPT !.rem = IF @ > n THEN @ - n ELSE 0]
                 ELSE timers[id]]

\* Timer.run() after finished.wait(interval): not cancelled, so the callback starts.
TimerRun(id) ==
    /\ id \in DOMAIN timers
    /\ timers[id].st = "waiting"
    /\ timers[id].rem = 0
    /\ timers' = [timers EXCEPT ![id].st = "started"]

----------------------------------------------------------------------------
(* _on_debounced_update -> update_code_base -> generate_markdown_output *)

\* for relative_path in repo_cache.get_all_files_sorted(): the list is built once.
ListFiles(id) ==
    /\ id \in DOMAIN timers
    /\ timers[id].st = "started"
    /\ timers' = [timers EXCEPT ![id].st = "reading",
                                 ![id].keys = GetAllFilesSorted(cache),
                                 ![id].i = 1]

\* One pass of the loop body: the FILE marker and the fenced content.
AppendBlock(id) ==
    /\ id \in DOMAIN timers
    /\ timers[id].st = "reading"
    /\ timers[id].i <= Len(timers[id].keys)
    /\ LET relative_path == timers[id].keys[timers[id].i]
       IN  timers' = [timers EXCEPT
                        ![id].blocks = Append(@, <<relative_path,
                                                   GetFileContent(cache, relative_path)>>),
                        ![id].i = @ + 1]

\* write_markdown_output, after which the callback returns and the thread ends.
WriteOutput(id) ==
    /\ id \in DOMAIN timers
    /\ timers[id].st = "reading"
    /\ timers[id].i > Len(timers[id].keys)
    /\ timers' = Without(timers, id)

----------------------------------------------------------------------------
(* ChangeHandler *)

\* The path _handle_change is called with for the event e.
ChangedPath(e) == IF e.kind = "moved" THEN e.dest_path ELSE e.src_path

\* on_created, on_modified without the test of event.is_directory.
OnCreatedOrModified_AnyEntity(e) ==
    IF IsRelevantFile(conf, e.src_path)
    THEN cache' = cache /\ hpc' = "handle_change"
    ELSE cache' = cache /\ hpc' = "idle"

\* on_created(event), on_modified(event)
OnCreatedOrModified(e) ==
    IF ~e.is_directory /\ IsRelevantFile(conf, e.src_path)
    THEN cache' = cache /\ hpc' = "handle_change"
    ELSE cache' = cache /\ hpc' = "idle"

\* on_deleted that schedules the update and leaves the dict alone.
OnDeleted_NoRemove(e) ==
    IF ~e.is_directory /\ IsRelevantFile(conf, e.src_path)
    THEN cache' = cache /\ hpc' = "trigger"
    ELSE cache' = cache /\ hpc' = "idle"

\* on_deleted(event), up to self.debouncer.trigger()
OnDeleted(e) ==
    IF ~e.is_directory /\ IsRelevantFile(conf, e.src_path)
    THEN cache' = RemoveFile(cache, Rel(e.src_path)) /\ hpc' = "trigger"
    ELSE cache' = cache /\ hpc' = "idle"

\* on_moved that forgets the old path.
OnMoved_KeepsSource(e) ==
    IF ~e.is_directory
    THEN /\ cache' = cache
         /\ hpc' = IF IsRelevantFile(conf, e.dest_path) THEN "handle_change" ELSE "idle"
    ELSE cache' = cache /\ hpc' = "idle"

\* on_moved(event), up to self._handle_change(new_path)
OnMoved(e) ==
    IF ~e.is_directory
    THEN /\ cache' = IF IsRelevantFile(conf, e.src_path)
                     THEN RemoveFile(cache, Rel(e.src_path))
                     ELSE cache
         /\ hpc' = IF IsRelevantFile(conf, e.dest_path) THEN "handle_change" ELSE "idle"
    ELSE cache' = cache /\ hpc' = "idle"

\* The observer thread takes the next event and calls the handler for its kind.
Dispatch ==
    /\ mpc = "watching"
    /\ hpc = "idle"
    /\ queue # <<>>
    /\ LET e == Head(queue)
       IN  /\ queue' = Tail(queue)
           /\ hev' = e
           /\ CASE e.kind \in {"created", "modified"} -> OnCreatedOrModified(e)
                [] e.kind = "deleted" -> OnDeleted(e)
                [] e.kind = "moved" -> OnMoved(e)
           /\ trigCount' = 0
           /\ seen' = NoFile
           /\ srcCached' = DictHas(cache, Rel(e.src_path))
           /\ midSnap' = FALSE
           /\ dirty' = (dirty \/ cache' # cache)
    /\ UNCHANGED <<conf, disk, mpc, dtimer, timers, changes, halfSeen, dObs, fVars, tVars, lVars>>

\* _handle_change(file_path): if os.path.exists(file_path)
HandleChangeExists ==
    /\ hpc = "handle_change"
    /\ hpc' = IF Exists(disk, conf.directory, ChangedPath(hev))
              THEN "update_file" ELSE "trigger"
    /\ UNCHANGED <<conf, disk, mpc, cache, queue, hev, dtimer, timers, changes,
                   hObs, dObs, fVars, tVars, lVars>>

\* _handle_change(file_path): self.repo_cache.update_file(file_path, rel_path)
HandleChangeUpdate ==
    /\ hpc = "update_file"
    /\ LET file_path == ChangedPath(hev)
       IN  /\ cache' = UpdateFile(cache, disk, conf.directory, file_path, Rel(file_path))
           /\ seen' = disk[Rel(file_path)]
    /\ hpc' = "trigger"
    /\ dirty' = (dirty \/ cache' # cache)
    /\ halfSeen' = (halfSeen \/ (midSnap /\ seen' \in Contents /\ cache' # cache))
    /\ UNCHANGED <<conf, disk, mpc, queue, hev, dtimer, timers, changes,
                   trigCount, srcCached, midSnap, dObs, fVars, tVars, lVars>>

\* self.debouncer.trigger(), the last statement of _handle_change and on_deleted
HandleTrigger ==
    /\ hpc = "trigger"
    /\ DebouncerTrigger
    /\ hpc' = "idle"
    /\ trigCount' = trigCount + 1
    /\ UNCHANGED <<conf, disk, mpc, cache, queue, hev, changes,
                   seen, srcCached, dirty, midSnap, halfSeen, dObs, fVars, tVars, lVars>>


\* A timer of the Debouncer is waiting for its interval.
Armed == \E id \in DOMAIN timers : timers[id].st = "waiting"

\* The observer thread is between the two cache steps of on_moved for a move
\* between two relevant paths whose source was cached.
MidMove ==
    /\ hpc \in {"handle_change", "update_file"}
    /\ hev.kind = "moved"
    /\ IsRelevantFile(conf, hev.src_path)
    /\ srcCached

\* A Timer thread's interval is over and it has not been cancelled.
TimerFires ==
    /\ \E id \in DOMAIN timers : TimerRun(id)
    /\ UNCHANGED <<conf, disk, mpc, cache, queue, hpc, hev, dtimer, changes,
                   hObs, dObs, fVars, tVars, lVars>>

RebuildList ==
    /\ \E id \in DOMAIN timers : ListFiles(id)
    /\ dirty' = FALSE
    /\ midSnap' = (midSnap \/ MidMove)
    /\ UNCHANGED <<conf, disk, mpc, cache, queue, hpc, hev, dtimer, changes,
                   trigCount, seen, srcCached, halfSeen, dObs, fVars, tVars, lVars>>

RebuildBlock ==
    /\ \E id \in DOMAIN timers : AppendBlock(id)
    /\ UNCHANGED <<conf, disk, mpc, cache, queue, hpc, hev, dtimer, changes,
                   hObs, dObs, fVars, tVars, lVars>>

RebuildWrite ==
    /\ \E id \in DOMAIN timers : WriteOutput(id)
    /\ UNCHANGED <<conf, disk, mpc, cache, queue, hpc, hev, dtimer, changes,
                   hObs, dObs, fVars, tVars, lVars>>

\* wait_time passes.
Tick ==
    /\ \E id \in DOMAIN timers : timers[id].st = "waiting" /\ timers[id].rem > 0
    /\ Elapse(wait_time)
    /\ UNCHANGED <<conf, disk, mpc, cache, queue, hpc, hev, dtimer, changes,
                   hObs, dObs, fVars, tVars, lVars>>

----------------------------------------------------------------------------
(* main() and the file tree it watches *)

\* main(): load_initial_cache, the first update_code_base, observer.start()
Main ==
    /\ mpc = "start"
    /\ cache' = LoadInitialCache(disk, conf)
    /\ mpc' = "watching"
    /\ UNCHANGED <<conf, disk, queue, hpc, hev, dtimer, timers, changes,
                   hObs, dObs, fVars, tVars, lVars>>

\* The files that change while the observer watches: two that both filters
\* accept, one below a directory named like an excluded one, one of another type.
WatchedFiles == {F_a_js, F_b_c_ts, F_nested, F_n_txt}

\* The files that change while the observer watches and rebuilds run.
SyncFiles == {F_a_js, F_b_c_ts, F_n_txt}

AllFiles == {F_a_js, F_b_c_ts, F_nested, F_n_txt, F_test_t_js, F_spec_ts, F_env, F_gen}

EnvStep(limit, event) ==
    /\ mpc = "watching"
    /\ changes < limit
    /\ Len(queue) < MaxQueue
    /\ queue' = Append(queue, event)
    /\ changes' = changes + 1
    /\ UNCHANGED <<conf, mpc, cache, hpc, hev, dtimer, timers, hObs, dObs, fVars, tVars, lVars>>

\* A file is created or written; the observer reports created or modified.
FsWrite(files, limit) ==
    \E p \in files, c \in Contents :
        /\ disk' = [disk EXCEPT ![p] = c]
        /\ EnvStep(limit, Event(IF disk[p] = NoFile THEN "created" ELSE "modified",
                                Abs(p), <<>>, FALSE))

\* A file is deleted.
FsDelete(files, limit) ==
    \E p \in files :
        /\ disk[p] # NoFile
        /\ disk' = [disk EXCEPT ![p] = NoFile]
        /\ EnvStep(limit, Event("deleted", Abs(p), <<>>, FALSE))

\* A file is renamed, replacing what was at the new path.
FsRename(files, limit) ==
    \E p \in files, q \in files :
        /\ p # q
        /\ disk[p] # NoFile
        /\ disk' = [disk EXCEPT ![q] = disk[p], ![p] = NoFile]
        /\ EnvStep(limit, Event("moved", Abs(p), Abs(q), FALSE))

EmptyTree == [p \in AllFiles |-> NoFile]

\* A tree with a file of every kind the filters tell apart.
FullTree ==
    [p \in AllFiles |->
        IF p \in {F_a_js, F_test_t_js, F_env} THEN "x"
        ELSE IF p \in {F_b_c_ts, F_spec_ts} THEN "y"
        ELSE NoFile]

ObsInit ==
    /\ trigCount = 0 /\ seen = NoFile /\ srcCached = FALSE
    /\ dirty = FALSE /\ midSnap = FALSE /\ halfSeen = FALSE
    /\ calls = 0 /\ nTrig = 0 /\ nCancel = 0 /\ nFired = 0
    /\ sinceTrig = 0 /\ burst = TRUE /\ early = FALSE
    /\ cTrig = 0 /\ cFired = 0 /\ cBurst = TRUE
    /\ lock = 0 /\ tpc = [t \in Threads |-> "idle"]
    /\ now = 0 /\ last_update = 0
    /\ fin = [filename |-> <<>>, dir |-> <<>>]
    /\ fout = [scan |-> <<>>, mon |-> <<>>]

ProgInit ==
    /\ mpc = "start"
    /\ cache = <<>>
    /\ queue = <<>>
    /\ hpc = "idle"
    /\ hev = NoEvent
    /\ dtimer = 0
    /\ timers = <<>>
    /\ changes = 0

Init ==
    /\ conf = MainConfig
    /\ disk \in {EmptyTree, FullTree}
    /\ ProgInit
    /\ ObsInit

\* The observer thread and the file tree.
Watch(files, limit) ==
    \/ Main
    \/ FsWrite(files, limit)
    \/ FsDelete(files, limit)
    \/ FsRename(files, limit)
    \/ Dispatch
    \/ HandleChangeExists
    \/ HandleChangeUpdate
    \/ HandleTrigger

\* The Timer threads.
Rebuild ==
    \/ Tick
    \/ TimerFires
    \/ RebuildList
    \/ RebuildBlock
    \/ RebuildWrite

\* The whole program.
Next == Watch(SyncFiles, MaxSyncChanges) \/ Rebuild

Spec == Init /\ [][Next]_vars

\* The observer thread alone: no Timer thread writes anything the handler reads.
NextWatch == Watch(WatchedFiles, MaxChanges)

SpecWatch == Init /\ [][NextWatch]_vars

----------------------------------------------------------------------------
(* A Debouncer driven by calls of trigger() and cancel(), against a clock *)

\* trigger() is called.
CallTrigger ==
    /\ calls < MaxCalls
    /\ DebouncerTrigger
    /\ calls' = calls + 1
    /\ nTrig' = nTrig + 1
    /\ sinceTrig' = 0
    /\ burst' = (burst /\ (nTrig = 0 \/ sinceTrig < wait_time))
    /\ cTrig' = cTrig + 1
    /\ cBurst' = (cBurst /\ (cTrig = 0 \/ sinceTrig < wait_time))
    /\ UNCHANGED <<conf, disk, mpc, cache, queue, hpc, hev, changes,
                   hObs, nCancel, nFired, early, cFired, fVars, tVars, lVars>>

\* cancel() is called.
CallCancel ==
    /\ calls < MaxCalls
    /\ DebouncerCancel
    /\ calls' = calls + 1
    /\ nCancel' = nCancel + 1
    /\ cTrig' = 0 /\ cFired' = 0 /\ cBurst' = TRUE
    /\ UNCHANGED <<conf, disk, mpc, cache, queue, hpc, hev, changes,
                   hObs, nTrig, nFired, sinceTrig, burst, early, fVars, tVars, lVars>>

\* One tick passes.
ClockTick ==
    /\ \/ sinceTrig < wait_time
       \/ \E id \in DOMAIN timers : timers[id].st = "waiting" /\ timers[id].rem > 0
    /\ Elapse(1)
    /\ sinceTrig' = IF sinceTrig < wait_time THEN sinceTrig + 1 ELSE wait_time
    /\ UNCHANGED <<conf, disk, mpc, cache, queue, hpc, hev, dtimer, changes,
                   hObs, calls, nTrig, nCancel, nFired, burst, early,
                   cTrig, cFired, cBurst, fVars, tVars, lVars>>

\* A Timer thread's interval is over and it has not been cancelled: the callback starts.
CallbackStarts ==
    /\ \E id \in DOMAIN timers : TimerRun(id)
    /\ nFired' = nFired + 1
    /\ early' = (early \/ sinceTrig < wait_time)
    /\ cFired' = cFired + 1
    /\ UNCHANGED <<conf, disk, mpc, cache, queue, hpc, hev, dtimer, changes,
                   hObs, calls, nTrig, nCancel, sinceTrig, burst, cTrig, cBurst, fVars, tVars, lVars>>

\* The state main() has reached when the observer starts, for its own tree.
InitDebounce ==
    /\ conf = MainConfig
    /\ disk = FullTree
    /\ mpc = "watching"
    /\ cache = LoadInitialCache(FullTree, MainConfig)
    /\ queue = <<>> /\ hpc = "idle" /\ hev = NoEvent
    /\ dtimer = 0 /\ timers = <<>> /\ changes = 0
    /\ ObsInit

NextDebounce ==
    \/ CallTrigger
    \/ CallCancel
    \/ ClockTick
    \/ CallbackStarts
    \/ RebuildList
    \/ RebuildBlock
    \/ RebuildWrite

SpecDebounce == InitDebounce /\ [][NextDebounce]_vars

----------------------------------------------------------------------------
(* load_initial_cache on drawn trees and configurations *)

\* A configuration whose exclude_dirs holds a path of two segments.
SegmentConfig ==
    [MainConfig EXCEPT !.exclude_dirs =
        { <<"t","e","s","t">>, <<"s","r","c","/","g","e","n">> }]

InitScan ==
    /\ conf \in {MainConfig, SegmentConfig}
    /\ disk \in Trees(AllFiles, {"x"})
    /\ ProgInit
    /\ ObsInit

SpecScan == InitScan /\ [][Main]_vars

----------------------------------------------------------------------------
(* The two filters on drawn names, directories and configurations, and the
   program run on the one file so named *)

FilterNames ==
    { <<".","e","n","v">>,
      <<"p","a","s","s","w","o","r","d","s",".","j","s","o","n">>,
      <<"a",".","j","s">>,
      <<"c",".","s","p","e","c",".","t","s">>,
      <<"n",".","t","x","t">> }

\* The directory of the file, relative to the watched one.
FilterDirs ==
    { <<>>, <<"b">>, <<"t","e","s","t">>, <<"s","r","c","/","t","e","s","t">> }

FilterConfigs ==
    [ directory       : {directory_path},
      extensions      : {extensions, {<<".","e","n","v">>, <<".","j","s","o","n">>}, {}},
      excludes        : {excludes, {}},
      exclude_dirs    : {exclude_dirs, {}},
      sensitive_files : {sensitive_files, {}},
      regex_patterns  : {regex_patterns, {<<"a">>}} ]

\* The relative path of the drawn file.
FilterFile == PathJoin(fin.dir, fin.filename)

InitFilter ==
    /\ conf \in FilterConfigs
    /\ fin \in [filename : FilterNames, dir : FilterDirs]
    /\ fout = [scan |-> <<>>, mon |-> <<>>]
    /\ disk = [p \in {PathJoin(fin.dir, fin.filename)} |-> "x"]
    /\ ProgInit
    /\ trigCount = 0 /\ seen = NoFile /\ srcCached = FALSE
    /\ dirty = FALSE /\ midSnap = FALSE /\ halfSeen = FALSE
    /\ calls = 0 /\ nTrig = 0 /\ nCancel = 0 /\ nFired = 0
    /\ sinceTrig = 0 /\ burst = TRUE /\ early = FALSE
    /\ cTrig = 0 /\ cFired = 0 /\ cBurst = TRUE
    /\ lock = 0 /\ tpc = [t \in Threads |-> "idle"]
    /\ now = 0 /\ last_update = 0

\* _should_include is applied to the drawn name.
ApplyShouldInclude ==
    /\ fout.scan = <<>>
    /\ fout' = [fout EXCEPT !.scan =
                  <<ShouldInclude(fin.filename, conf.extensions, conf.excludes,
                                  conf.sensitive_files, conf.regex_patterns)>>]
    /\ UNCHANGED <<progVars, hObs, dObs, fin, tVars, lVars>>

\* _is_relevant_file is applied to the drawn file's absolute path.
ApplyIsRelevantFile ==
    /\ fout.mon = <<>>
    /\ fout' = [fout EXCEPT !.mon = <<IsRelevantFile(conf, Abs(FilterFile))>>]
    /\ UNCHANGED <<progVars, hObs, dObs, fin, tVars, lVars>>

NextFilter ==
    \/ ApplyShouldInclude
    \/ ApplyIsRelevantFile
    \/ Main
    \/ FsWrite({FilterFile}, MaxFilterChanges)
    \/ FsDelete({FilterFile}, MaxFilterChanges)
    \/ Dispatch
    \/ HandleChangeExists
    \/ HandleChangeUpdate
    \/ HandleTrigger

SpecFilter == InitFilter /\ [][NextFilter]_vars

----------------------------------------------------------------------------
(* update_file on drawn caches, trees and paths *)

\* The paths update_file is called for.
UpsertFiles == {F_a_js, F_b_c_ts}

\* The dicts over UpsertFiles, in every insertion order.
UpsertCaches ==
    {<<>>}
    \cup { <<<<k, v>>>> : k \in UpsertFiles, v \in Contents }
    \cup { d \in { <<<<k1, v1>>, <<k2, v2>>>> :
                      k1 \in UpsertFiles, k2 \in UpsertFiles,
                      v1 \in Contents, v2 \in Contents } : d[1][1] # d[2][1] }

\* A cache and a tree, and the arguments of the call to come.
InitUpsert ==
    /\ conf = MainConfig
    /\ disk \in Trees(UpsertFiles, Contents \cup {Unreadable})
    /\ mpc = "watching"
    /\ cache \in UpsertCaches
    /\ queue = <<>> /\ hpc = "idle" /\ hev = NoEvent
    /\ dtimer = 0 /\ timers = <<>> /\ changes = 0
    /\ trigCount = 0 /\ seen = NoFile /\ srcCached = FALSE
    /\ dirty = FALSE /\ midSnap = FALSE /\ halfSeen = FALSE
    /\ calls = 0 /\ nTrig = 0 /\ nCancel = 0 /\ nFired = 0
    /\ sinceTrig = 0 /\ burst = TRUE /\ early = FALSE
    /\ cTrig = 0 /\ cFired = 0 /\ cBurst = TRUE
    /\ lock = 0 /\ tpc = [t \in Threads |-> "idle"]
    /\ now = 0 /\ last_update = 0
    /\ fin \in [relative_path : UpsertFiles]
    /\ fout = [done |-> FALSE, before |-> <<>>]

\* update_file(file_path, relative_path) is called; the dict it found is kept in fout.
ApplyUpdateFile ==
    /\ ~fout.done
    /\ cache' = UpdateFile(cache, disk, conf.directory,
                           Abs(fin.relative_path), fin.relative_path)
    /\ fout' = [done |-> TRUE, before |-> cache]
    /\ UNCHANGED <<conf, disk, mpc, queue, hpc, hev, dtimer, timers, changes,
                   hObs, dObs, fin, tVars, lVars>>

SpecUpsert == InitUpsert /\ [][ApplyUpdateFile]_vars

----------------------------------------------------------------------------
(* The observer thread with events for directories and for files out of scope *)

\* A file both filters accept, one of another type and one with a sensitive name.
IgnoreFiles == {F_a_js, F_n_txt, F_env}

\* Empty directories below the watched one, with names a file could have.
IgnoreDirs == { <<"d",".","j","s">>, <<"e",".","t","s">> }

\* A directory is created, touched or deleted: no file changes.
FsDirChange(limit) ==
    \E d \in IgnoreDirs, kind \in {"created", "modified", "deleted"} :
        /\ disk' = disk
        /\ EnvStep(limit, Event(kind, Abs(d), <<>>, TRUE))

\* A directory is renamed (watchdog's DirMovedEvent, a FileSystemMovedEvent).
FsDirRename(limit) ==
    \E d \in IgnoreDirs, d2 \in IgnoreDirs :
        /\ d # d2
        /\ disk' = disk
        /\ EnvStep(limit, Event("moved", Abs(d), Abs(d2), TRUE))

NextIgnore ==
    \/ Watch(IgnoreFiles, MaxIgnoreChanges)
    \/ FsDirChange(MaxIgnoreChanges)
    \/ FsDirRename(MaxIgnoreChanges)

SpecIgnore == Init /\ [][NextIgnore]_vars

----------------------------------------------------------------------------
(* Threads calling trigger() and cancel() of one Debouncer, statement by statement *)

\* with self._lock: entered without waiting for the holder.
LockFree_Always == TRUE

\* with self._lock: the lock can be acquired.
LockFree == lock = 0

\* A thread calls trigger() or cancel() and reaches with self._lock.
ThreadCall(t) ==
    /\ calls < MaxThreadCalls
    /\ tpc[t] = "idle"
    /\ \E m \in {"trigger_enter", "cancel_enter"} : tpc' = [tpc EXCEPT ![t] = m]
    /\ calls' = calls + 1
    /\ UNCHANGED <<progVars, hObs, nTrig, nCancel, nFired, sinceTrig, burst, early,
                   cTrig, cFired, cBurst, fVars, lock, lVars>>

\* with self._lock: acquired, in trigger() or cancel().
ThreadAcquire(t) ==
    /\ tpc[t] \in {"trigger_enter", "cancel_enter"}
    /\ LockFree
    /\ lock' = t
    /\ tpc' = [tpc EXCEPT ![t] = IF @ = "trigger_enter" THEN "trigger_check"
                                                          ELSE "cancel_body"]
    /\ UNCHANGED <<progVars, hObs, dObs, fVars, lVars>>

\* trigger(): if self._timer is not None: self._timer.cancel()
TriggerCancelOld(t) ==
    /\ tpc[t] = "trigger_check"
    /\ timers' = IF dtimer # 0 THEN TimerCancel(timers, dtimer) ELSE timers
    /\ tpc' = [tpc EXCEPT ![t] = "trigger_new"]
    /\ UNCHANGED <<conf, disk, mpc, cache, queue, hpc, hev, dtimer, changes,
                   hObs, dObs, fVars, lock, lVars>>

\* trigger(): self._timer = threading.Timer(self.wait_time, self.callback)
TriggerNew(t) ==
    /\ tpc[t] = "trigger_new"
    /\ timers' = timers @@ (NewTimerId(timers) :> [NewTimer EXCEPT !.st = "created"])
    /\ dtimer' = NewTimerId(timers)
    /\ tpc' = [tpc EXCEPT ![t] = "trigger_start"]
    /\ UNCHANGED <<conf, disk, mpc, cache, queue, hpc, hev, changes,
                   hObs, dObs, fVars, lock, lVars>>

\* trigger(): self._timer.start(), and the lock is released. start() raises for
\* None and for a Timer started before, and a Timer cancelled before its start
\* ends at once: in each of these no thread begins to wait.
TriggerStart(t) ==
    /\ tpc[t] = "trigger_start"
    /\ timers' = IF dtimer \in DOMAIN timers /\ timers[dtimer].st = "created"
                 THEN [timers EXCEPT ![dtimer].st = "waiting"]
                 ELSE timers
    /\ lock' = IF lock = t THEN 0 ELSE lock
    /\ tpc' = [tpc EXCEPT ![t] = "idle"]
    /\ nTrig' = nTrig + 1
    /\ sinceTrig' = 0
    /\ burst' = (burst /\ (nTrig = 0 \/ sinceTrig < wait_time))
    /\ cTrig' = cTrig + 1
    /\ cBurst' = (cBurst /\ (cTrig = 0 \/ sinceTrig < wait_time))
    /\ UNCHANGED <<conf, disk, mpc, cache, queue, hpc, hev, dtimer, changes,
                   hObs, calls, nCancel, nFired, early, cFired, fVars, lVars>>

\* cancel(): the body, and the lock is released.
CancelBody(t) ==
    /\ tpc[t] = "cancel_body"
    /\ DebouncerCancel
    /\ lock' = IF lock = t THEN 0 ELSE lock
    /\ tpc' = [tpc EXCEPT ![t] = "idle"]
    /\ nCancel' = nCancel + 1
    /\ cTrig' = 0 /\ cFired' = 0 /\ cBurst' = TRUE
    /\ UNCHANGED <<conf, disk, mpc, cache, queue, hpc, hev, changes,
                   hObs, calls, nTrig, nFired, sinceTrig, burst, early, fVars, lVars>>

NextThreads ==
    \/ \E t \in Threads :
          \/ ThreadCall(t)
          \/ ThreadAcquire(t)
          \/ TriggerCancelOld(t)
          \/ TriggerNew(t)
          \/ TriggerStart(t)
          \/ CancelBody(t)
    \/ ClockTick
    \/ CallbackStarts
    \/ RebuildList
    \/ RebuildBlock
    \/ RebuildWrite

SpecThreads == InitDebounce /\ [][NextThreads]_vars

----------------------------------------------------------------------------
(* SyncRepo.py: the renderer that walks the tree on every update *)

F_c_js == <<"c",".","j","s">>

\* The files of the trees SyncRepo.py renders: in the root, below directories,
\* below an excluded directory, and one with a sensitive name.
LegacyFiles == {F_a_js, F_b_c_ts, F_c_js, F_gen, F_test_t_js, F_env}

\* The files loop of read_files_in_directory for one directory of the walk:
\* all_code grows by one block per file that passes and can be read.
RECURSIVE LegacyFilesLoop(_, _, _, _, _)
LegacyFilesLoop(all_code, tree, root, files, c) ==
    IF files = <<>> THEN all_code
    ELSE LET file == Head(files)
             file_path == PathJoin(root, file)
             relative_path == RelPath(file_path, c.directory)
             passes == /\ file \notin c.sensitive_files
                       /\ \E ext \in c.extensions : EndsWith(file, ext)
                       /\ ~ \E exc \in c.excludes : EndsWith(file, exc)
             next == IF passes /\ tree[relative_path] \notin {NoFile, Unreadable}
                     THEN Append(all_code, <<relative_path, tree[relative_path]>>)
                     ELSE all_code
         IN  LegacyFilesLoop(next, tree, root, Tail(files), c)

\* The os.walk loop of read_files_in_directory: the directory with components
\* d, then the directories left in dirs, in their sorted order.
RECURSIVE LegacyWalk(_, _, _, _)
RECURSIVE LegacyDirs(_, _, _, _, _)
LegacyWalk(all_code, tree, d, c) ==
    LET root  == IF d = <<>> THEN c.directory ELSE PathJoin(c.directory, JoinParts(d))
        dirs  == SortStrs({x \in DirsOf(tree, d) : x \notin c.exclude_dirs})
        files == SortStrs(FilesOf(tree, d))
    IN  LegacyDirs(LegacyFilesLoop(all_code, tree, root, files, c), tree, d, dirs, c)

LegacyDirs(all_code, tree, d, dirs, c) ==
    IF dirs = <<>> THEN all_code
    ELSE LegacyDirs(LegacyWalk(all_code, tree, Append(d, Head(dirs)), c),
                    tree, d, Tail(dirs), c)

\* read_files_in_directory(directory, extensions, excludes, exclude_dirs, sensitive_files)
ReadFilesInDirectory(tree, c) == LegacyWalk(<<>>, tree, <<>>, c)

InitLegacy ==
    /\ conf = MainConfig
    /\ disk \in Trees(LegacyFiles, {"x", Unreadable})
    /\ ProgInit
    /\ trigCount = 0 /\ seen = NoFile /\ srcCached = FALSE
    /\ dirty = FALSE /\ midSnap = FALSE /\ halfSeen = FALSE
    /\ calls = 0 /\ nTrig = 0 /\ nCancel = 0 /\ nFired = 0
    /\ sinceTrig = 0 /\ burst = TRUE /\ early = FALSE
    /\ cTrig = 0 /\ cFired = 0 /\ cBurst = TRUE
    /\ lock = 0 /\ tpc = [t \in Threads |-> "idle"]
    /\ now = 0 /\ last_update = 0
    /\ fin = [filename |-> <<>>, dir |-> <<>>]
    /\ fout = [written |-> FALSE, blocks |-> <<>>]

\* SyncRepo.py's update_code_base: the blocks of the document it writes.
LegacyUpdateCodeBase ==
    /\ ~fout.written
    /\ fout' = [written |-> TRUE, blocks |-> ReadFilesInDirectory(disk, conf)]
    /\ UNCHANGED <<progVars, hObs, dObs, fin, tVars, lVars>>

SpecLegacy == InitLegacy /\ [][LegacyUpdateCodeBase]_vars

----------------------------------------------------------------------------
(* SyncRepo.py: main() and ChangeHandler.on_any_event *)

\* The files that change while SyncRepo.py's observer watches.
LegacyWatchFiles == {F_a_js, F_c_js}

InitLegacyWatch ==
    /\ conf = MainConfig
    /\ disk = [p \in LegacyFiles |-> IF p \in {F_a_js, F_b_c_ts} THEN "x" ELSE NoFile]
    /\ ProgInit
    /\ trigCount = 0 /\ seen = NoFile /\ srcCached = FALSE
    /\ dirty = FALSE /\ midSnap = FALSE /\ halfSeen = FALSE
    /\ calls = 0 /\ nTrig = 0 /\ nCancel = 0 /\ nFired = 0
    /\ sinceTrig = 0 /\ burst = TRUE /\ early = FALSE
    /\ cTrig = 0 /\ cFired = 0 /\ cBurst = TRUE
    /\ lock = 0 /\ tpc = [t \in Threads |-> "idle"]
    /\ now = 0 /\ last_update = 0
    /\ fin = [filename |-> <<>>, dir |-> <<>>]
    /\ fout = [written |-> FALSE, blocks |-> <<>>]

\* SyncRepo.py's main(): the first update_code_base, then the ChangeHandler is
\* built (last_update = time.time()) and the observer started.
LegacyMain ==
    /\ mpc = "start"
    /\ fout' = [written |-> TRUE, blocks |-> ReadFilesInDirectory(disk, conf)]
    /\ last_update' = now
    /\ mpc' = "watching"
    /\ UNCHANGED <<conf, disk, cache, queue, hpc, hev, dtimer, timers, changes,
                   hObs, dObs, fin, tVars, now>>

\* on_any_event(event): within debounce_time of last_update the event is
\* dropped; otherwise last_update is set and update_code_base runs.
OnAnyEvent ==
    /\ mpc = "watching"
    /\ queue # <<>>
    /\ queue' = Tail(queue)
    /\ hev' = Head(queue)
    /\ LET current_time == now
       IN  IF current_time - last_update < debounce_time
           THEN UNCHANGED <<last_update, fout>>
           ELSE /\ last_update' = current_time
                /\ fout' = [written |-> TRUE,
                            blocks |-> ReadFilesInDirectory(disk, conf)]
    /\ UNCHANGED <<conf, disk, mpc, cache, hpc, dtimer, timers, changes,
                   hObs, dObs, fin, tVars, now>>

\* One tick passes.
LegacyTick ==
    /\ now < MaxLegacyTime
    /\ now' = now + 1
    /\ UNCHANGED <<progVars, hObs, dObs, fVars, tVars, last_update>>

NextLegacyWatch ==
    \/ LegacyMain
    \/ FsWrite(LegacyWatchFiles, MaxLegacyChanges)
    \/ FsDelete(LegacyWatchFiles, MaxLegacyChanges)
    \/ FsRename(LegacyWatchFiles, MaxLegacyChanges)
    \/ OnAnyEvent
    \/ LegacyTick

SpecLegacyWatch == InitLegacyWatch /\ [][NextLegacyWatch]_vars

----------------------------------------------------------------------------
(* Claims *)

\* The mapping a dict holds, without its insertion order.
DictItems(d) == {<<d[i][1], d[i][2]>> : i \in 1..Len(d)}

\* Every change made to the tree has had its event handled to completion.
Settled == mpc = "watching" /\ hpc = "idle" /\ queue = <<>>

\* C1: once every change's event has been handled, the cache holds the keys and
\* contents a fresh load_initial_cache of the current tree would produce.
C1_CacheMatchesFreshScan ==
    Settled => DictItems(cache) = DictItems(LoadInitialCache(disk, conf))


\* on_moved has returned for the file move hev.
MoveDone == hpc = "idle" /\ hev.kind = "moved" /\ ~hev.is_directory

\* C3: when on_moved has handled a move between two relevant paths and
\* update_file read the file at its new path, the cache maps the new relative
\* path to the content read, has no key for the old relative path, and
\* trigger() was called once for the event.
C3_MoveAtomicity ==
    ( /\ MoveDone
      /\ IsRelevantFile(conf, hev.src_path)
      /\ IsRelevantFile(conf, hev.dest_path)
      /\ seen \in Contents )
    => /\ DictHas(cache, Rel(hev.dest_path))
       /\ GetFileContent(cache, Rel(hev.dest_path)) = seen
       /\ ~DictHas(cache, Rel(hev.src_path))
       /\ trigCount = 1

\* C3's case: such a move of a file that was cached under its old path.
C3_Witness ==
    /\ MoveDone
    /\ IsRelevantFile(conf, hev.src_path)
    /\ IsRelevantFile(conf, hev.dest_path)
    /\ seen \in Contents
    /\ srcCached

\* C4: handling a file moved event calls trigger() once when the source or the
\* destination is relevant, and not at all when neither is.
C4_MoveTriggersOnce ==
    MoveDone =>
        trigCount = IF \/ IsRelevantFile(conf, hev.src_path)
                       \/ IsRelevantFile(conf, hev.dest_path)
                    THEN 1 ELSE 0

\* What remove_file(k) may make of the dict c: without k nothing changes, with k
\* exactly its entry goes.
RemovedExactly(c, c2, k) ==
    IF DictHas(c, k)
    THEN /\ ~DictHas(c2, k)
         /\ DictItems(c2) = DictItems(c) \ {<<k, GetFileContent(c, k)>>}
         /\ Len(c2) = Len(c) - 1
    ELSE c2 = c

\* The observer thread calls remove_file in this step: on_deleted or on_moved
\* with a relevant source path, or update_file finding the file gone.
RemoveCalledFor ==
    IF /\ hpc = "idle" /\ queue # <<>> /\ queue' = Tail(queue)
       /\ Head(queue).kind \in {"deleted", "moved"}
       /\ ~Head(queue).is_directory
       /\ IsRelevantFile(conf, Head(queue).src_path)
    THEN {Rel(Head(queue).src_path)}
    ELSE IF /\ hpc = "update_file" /\ hpc' = "trigger"
            /\ ~Exists(disk, conf.directory, ChangedPath(hev))
    THEN {Rel(ChangedPath(hev))}
    ELSE {}

\* C9: remove_file on a path that is no key leaves the mapping as it was, and on
\* a key deletes that entry and no other.
C9_IdempotentRemoval ==
    [][\A k \in RemoveCalledFor : RemovedExactly(cache, cache', k)]_vars

\* C9's case: on_deleted has removed a path that was no key of a non-empty cache.
C9_Witness ==
    /\ hpc = "trigger"
    /\ hev.kind = "deleted"
    /\ ~srcCached
    /\ cache # <<>>


\* C2: while every trigger() so far came less than wait_time after the one before
\* and cancel() was never called, the callback has started once if no timer waits
\* and not at all if one does, and never sooner than wait_time after the last
\* trigger().
C2_DebounceCoalescing ==
    (burst /\ nTrig >= 1 /\ nCancel = 0)
    => /\ ~early
       /\ nFired = IF Armed THEN 0 ELSE 1

\* C2's case: a burst of several calls whose one callback has started.
C2_Witness ==
    burst /\ nTrig >= 3 /\ nCancel = 0 /\ nFired = 1 /\ ~Armed


\* C5: no rebuild lists the keys of the cache between on_moved's removal of a
\* cached source path and its storing of the destination.
C5_NoHalfAppliedMove == ~halfSeen

\* C6: the program never rests (no event queued, the handler idle) with a cache
\* changed since the last rebuild listed it and neither a timer waiting nor a
\* callback about to list it.
C6_NoLostMutation ==
    (Settled /\ dirty)
    => \/ Armed
       \/ \E id \in DOMAIN timers : timers[id].st = "started"

\* A sequence of str in strictly ascending order.
Ascending(q) == \A j \in 1..(Len(q) - 1) : StrLess(q[j], q[j + 1])

\* The list this step builds in generate_markdown_output, if it builds one,
\* holds each key of the cache once.
ListsEveryKey(id) ==
    (id \in DOMAIN timers /\ timers[id].st = "started")
    => /\ {timers'[id].keys[j] : j \in 1..Len(timers'[id].keys)} = DictKeySet(cache)
       /\ Len(timers'[id].keys) = Cardinality(DictKeySet(cache))

\* C10: the document a rebuild composes has one block per key of the cache it
\* listed, in ascending order of relative path, whatever the order of the dict.
C10_RenderOrder ==
    [][\A id \in DOMAIN timers' :
          timers'[id].st = "reading"
          => /\ ListsEveryKey(id)
             /\ Ascending(timers'[id].keys)
             /\ [j \in 1..Len(timers'[id].blocks) |-> timers'[id].blocks[j][1]]
                  = SubSeq(timers'[id].keys, 1, timers'[id].i - 1)]_vars

\* C10's case: a finished document of two blocks or more for a cache whose
\* insertion order is not the ascending one.
C10_Witness ==
    \E id \in DOMAIN timers :
        /\ timers[id].st = "reading"
        /\ timers[id].i > Len(timers[id].keys)
        /\ Len(timers[id].blocks) >= 2
        /\ DictKeySet(cache) = {timers[id].keys[j] : j \in 1..Len(timers[id].keys)}
        /\ DictKeys(cache) # timers[id].keys


\* C7: for a name listed in sensitive_files both filters answer False, whatever
\* the other lists and the directory, and no key of the cache has such a name.
C7_SensitiveNamesLose ==
    /\ fin.filename \in conf.sensitive_files
         => fout.scan # <<TRUE>> /\ fout.mon # <<TRUE>>
    /\ \A k \in DictKeySet(cache) : Basename(k) \notin conf.sensitive_files

\* C7's case: both filters have answered for a sensitive name that ends in a
\* listed extension, and its created event has been handled.
C7_Witness ==
    /\ fin.filename \in conf.sensitive_files
    /\ \E ext \in conf.extensions : EndsWith(fin.filename, ext)
    /\ fout.scan = <<FALSE>>
    /\ fout.mon = <<FALSE>>
    /\ hev.kind = "created"
    /\ hpc = "idle"

\* The file with relative path rel lies below a directory that eds lists, by
\* name (at any depth) or by its path from the scanned directory.
UnderExcludedDir(rel, eds) ==
    LET parts == Split(rel)
        dirs  == SubSeq(parts, 1, Len(parts) - 1)
    IN  \E ed \in eds :
            \/ \E j \in 1..Len(dirs) : dirs[j] = ed
            \/ /\ Len(Split(ed)) <= Len(dirs)
               /\ SubSeq(dirs, 1, Len(Split(ed))) = Split(ed)

\* C8: when load_initial_cache has returned, no key of the cache is a file below
\* an excluded directory.
C8_ScanPrunesExcludedDirs ==
    mpc = "watching" =>
        \A k \in DictKeySet(cache) : ~UnderExcludedDir(k, conf.exclude_dirs)


\* Every entry but the one of path p is the same in the dicts b and c.
SameElsewhere(b, c, p) ==
    \A k \in (DictKeySet(b) \cup DictKeySet(c)) \ {p} :
        /\ DictHas(b, k) = DictHas(c, k)
        /\ DictGet(b, k, "") = DictGet(c, k, "")

\* C11: update_file for a file that is not on disk does what remove_file does;
\* for a file that is there and can be read it leaves the path mapped to the
\* file's content, whatever the dict held for it; no other entry changes.
C11_UpsertContract ==
    fout.done =>
        LET p == fin.relative_path
        IN  /\ disk[p] = NoFile =>
                 /\ cache = RemoveFile(fout.before, p)
                 /\ ~DictHas(cache, p)
            /\ disk[p] \in Contents =>
                 /\ DictHas(cache, p)
                 /\ DictGet(cache, p, "") = disk[p]
            /\ SameElsewhere(fout.before, cache, p)

\* C11's case: update_file has overwritten an older content of one of two entries.
C11_Witness ==
    /\ fout.done
    /\ Len(fout.before) = 2
    /\ disk[fin.relative_path] \in Contents
    /\ DictGet(fout.before, fin.relative_path, "") # disk[fin.relative_path]
    /\ DictGet(cache, fin.relative_path, "") = disk[fin.relative_path]

\* C12: after update_file for a file whose read fails, the dict has no entry
\* for the file's path.
C12_UnreadableMeansAbsent ==
    (fout.done /\ disk[fin.relative_path] = Unreadable)
    => ~DictHas(cache, fin.relative_path)


\* C13: a cancel() made while no timer waits changes no Timer thread; after any
\* cancel() no timer waits, so none armed before it calls back; and for the
\* trigger() calls made since the last cancel(), each less than wait_time after
\* the one before, the callback has started once if no timer waits, not at all
\* if one does, and never sooner than wait_time after the last trigger().
C13_CancelSemantics ==
    [][/\ (nCancel' = nCancel + 1) =>
             /\ ~Armed => timers' = timers
             /\ ~Armed'
             /\ dtimer' = 0
       /\ (nCancel' >= 1 /\ cTrig' >= 1 /\ cBurst') =>
             /\ ~early'
             /\ cFired' = IF Armed' THEN 0 ELSE 1]_vars

\* C13's case: one trigger(), a cancel() before its timer called back, then a
\* trigger() whose callback has started; and a cancel() with no timer waiting.
C13_Witness ==
    /\ nCancel = 2
    /\ nTrig = 2 /\ cTrig = 1
    /\ nFired = 1 /\ cFired = 1
    /\ ~Armed


\* C14: after the scan and after any handled events, no key of the cache has a
\* directory component that exclude_dirs lists.
C14_NoKeyBelowExcludedName ==
    \A k \in DictKeySet(cache) :
        \A j \in 1..(Len(Split(k)) - 1) : Split(k)[j] \notin conf.exclude_dirs


\* The handler has returned for an event of one of the kinds, for a file path
\* that passes _is_relevant_file.
Handled(kinds) ==
    /\ hpc = "idle"
    /\ hev.kind \in kinds
    /\ ~hev.is_directory
    /\ IsRelevantFile(conf, hev.src_path)

\* C15: when on_created or on_modified has handled an event for a relevant path,
\* trigger() was called once for it, and the path is mapped to the content the
\* file had when the event was handled, or is no key if the file was gone then.
C15_CreatedModifiedUpsert ==
    Handled({"created", "modified"}) =>
        /\ trigCount = 1
        /\ seen \in Contents =>
              /\ DictHas(cache, Rel(hev.src_path))
              /\ GetFileContent(cache, Rel(hev.src_path)) = seen
        /\ seen = NoFile => ~DictHas(cache, Rel(hev.src_path))

\* The observer thread takes a deleted event for a relevant file path in this step.
DeletedTaken ==
    /\ hpc = "idle" /\ queue # <<>> /\ queue' = Tail(queue)
    /\ Head(queue).kind = "deleted"
    /\ ~Head(queue).is_directory
    /\ IsRelevantFile(conf, Head(queue).src_path)

\* C16: on_deleted for a relevant path, whether or not a file is there, deletes
\* the path's entry and no other before it calls trigger(); the call of
\* trigger() changes no entry; and when on_deleted has returned the path is no
\* key and trigger() was called once.
C16_DeletedHandling ==
    [][/\ DeletedTaken =>
             /\ RemovedExactly(cache, cache', Rel(Head(queue).src_path))
             /\ ~DictHas(cache', Rel(Head(queue).src_path))
             /\ hpc' = "trigger"
             /\ trigCount' = 0
             /\ UNCHANGED <<dtimer, timers>>
       /\ (hpc = "trigger" /\ hev.kind = "deleted") =>
             /\ cache' = cache
             /\ (hpc' = "idle" => trigCount' = 1 /\ dtimer' # 0 /\ Armed')
       /\ Handled({"deleted"})' =>
             /\ trigCount' = 1
             /\ ~DictHas(cache', Rel(hev'.src_path))]_vars

\* C16's case: on_deleted has removed one of two entries and returned.
C16_Witness ==
    /\ Handled({"deleted"})
    /\ srcCached
    /\ cache # <<>>
    /\ trigCount = 1


\* The handlers do nothing for the event e: it is for a directory, or no path
\* the handler for its kind looks at passes _is_relevant_file.
Ignored(e) ==
    \/ e.is_directory
    \/ e.kind \in {"created", "modified", "deleted"} /\ ~IsRelevantFile(conf, e.src_path)
    \/ /\ e.kind = "moved"
       /\ ~IsRelevantFile(conf, e.src_path)
       /\ ~IsRelevantFile(conf, e.dest_path)

\* C17: from the step that takes such an event to the return of its handler,
\* the cache, Debouncer._timer and the Timer threads stay as they are.
C17_IgnoredEventsChangeNothing ==
    [][(\/ hpc # "idle" /\ Ignored(hev)
        \/ hpc = "idle" /\ queue # <<>> /\ queue' = Tail(queue) /\ Ignored(Head(queue)))
       => UNCHANGED <<cache, dtimer, timers>>]_vars

\* C17's case: an event for a directory whose name passes the filter has been
\* handled while entries were cached and a timer was armed.
C17_Witness ==
    /\ hpc = "idle"
    /\ hev.is_directory
    /\ IsRelevantFile(conf, hev.src_path)
    /\ cache # <<>>
    /\ Armed


\* The timers that are armed: started, not cancelled, not yet calling back.
ArmedTimers == {id \in DOMAIN timers : timers[id].st = "waiting"}

\* C18: with threads interleaved at every statement of trigger() and cancel(),
\* at most one timer is armed; trigger() creates its Timer only when none is
\* armed any more; and when a trigger() returns, the timer it made is the one
\* armed, with the whole of wait_time ahead of it.
C18_SingleLiveTimer ==
    [][/\ Cardinality(ArmedTimers') <= 1
       /\ \A t \in Threads :
             /\ (tpc[t] = "trigger_new" /\ tpc'[t] = "trigger_start")
                   => ArmedTimers = {}
             /\ (tpc[t] = "trigger_start" /\ tpc'[t] = "idle")
                   => /\ dtimer' # 0
                      /\ ArmedTimers' = {dtimer'}
                      /\ timers'[dtimer'].rem = wait_time]_vars

\* C18's case: a trigger() returned and armed a timer; a second thread's
\* trigger() has cancelled that timer before it called back and is about to
\* start its own, while the first thread waits for the lock again.
C18_Witness ==
    /\ nTrig >= 1 /\ nCancel = 0 /\ nFired = 0
    /\ \E t \in Threads, u \in Threads :
          /\ t # u
          /\ tpc[t] = "trigger_start"
          /\ tpc[u] \in {"trigger_enter", "cancel_enter"}
    /\ ArmedTimers = {}


\* The Timer threads inside _on_debounced_update.
Rebuilding == {id \in DOMAIN timers : timers[id].st \in {"started", "reading"}}

\* C19: at most one Timer thread is inside _on_debounced_update at a time.
C19_SingleRebuild == Cardinality(Rebuilding) <= 1


\* The relative paths of a document's blocks, in the document's order.
BlockPaths(blocks) == [j \in 1..Len(blocks) |-> blocks[j][1]]

\* C20: the document SyncRepo.py writes for a tree lists its blocks in ascending
\* order of relative path, the order SRC.py lists the cache of the same tree in.
C20_LegacyRenderOrder ==
    fout.written =>
        /\ Ascending(BlockPaths(fout.blocks))
        /\ BlockPaths(fout.blocks) = GetAllFilesSorted(LoadInitialCache(disk, conf))


\* C21: SyncRepo.py never rests, every event handled, with a document that
\* differs from what a scan of the tree as it is now would write.
C21_LegacyReflectsEveryChange ==
    (mpc = "watching" /\ queue = <<>>)
    => fout.blocks = ReadFilesInDirectory(disk, conf)

====
